---- MODULE Spec2Model ----
(***************************************************************************)
(* The Virtual Mani: the manuscript aggregator of the three server         *)
(* variants (src/server.js, src/unnamed/part_000, src/Dockerfile), their   *)
(* HTTP handlers, and the frontend's XML parsing and line merge            *)
(* (src/server.js, second half).                                           *)
(*                                                                         *)
(* Strings that the code inspects (trim, endsWith, basename) are modelled  *)
(* as sequences of tokens so that these operations are computed, not       *)
(* assumed.                                                                *)
(***************************************************************************)
EXTENDS Integers, Sequences, FiniteSets, TLC

VARIABLES
    originalXML,          \* fileSystemData.originals[fileName]: the <line> elements of the document
    reconstructionXML,    \* fileSystemData.reconstructions[folderName][fileName]
    originalLines,        \* parseXML(originalXML)
    reconstructionLines,  \* parseXML(reconstructionXML, true)
    combinedLines,        \* the merge result stored in reconstructions[fullModelName]
    mpc,                  \* position of loadAndProcessData: "idle" | "fetched" | "done"
    tree,                 \* the source tree under the data root (directory or bucket)
    fault,                \* the I/O operation of a scan that fails, if any, and its error code
    handled,              \* the server variants whose GET /api/manuscripts request was handled
    resp,                 \* per variant, the responses sent to that request (res.json / res.send)
    ioLog,                \* per variant, the I/O operations the scan attempted, in order
    exchanges,            \* the POST /api/translate requests handled so far, with their responses
    isModalOpen,          \* App state: the translation modal is shown
    translationSource,    \* App state: { text, title } of the requested translation
    translatedText,       \* App state: what the modal shows as the translation
    isLoadingTranslation, \* App state: the modal shows the spinner
    requests,             \* the handleTranslate calls so far: source, position, response, outcome
    loadPc,               \* position of loadAndProcessData: "idle" | "fetching" | "reading" | "done"
    loadResponse,         \* the response fetchDataFromApi received
    isLoading,            \* App state: the loading spinner is shown
    error,                \* App state: null, or the message of the caught error
    manuscripts,          \* App state: the manuscripts built from the fetched data
    reconstructionModels, \* App state: the display names of the loaded reconstructions, sorted
    selectedModels        \* App state: the display names ticked in the filter

mergeVars == <<originalXML, reconstructionXML, originalLines, reconstructionLines,
               combinedLines, mpc>>

serverVars == <<tree, fault, handled, resp, ioLog>>

translateVars == <<exchanges>>

modalVars == <<isModalOpen, translationSource, translatedText, isLoadingTranslation,
               requests>>

loadVars == <<loadPc, loadResponse, isLoading, error, manuscripts, reconstructionModels,
              selectedModels>>

vars == <<mergeVars, serverVars, translateVars, modalVars, loadVars>>

\* The state of the frontend before any data is fetched.
MergeIdle ==
    /\ originalXML = <<>>
    /\ reconstructionXML = <<>>
    /\ originalLines = <<>>
    /\ reconstructionLines = <<>>
    /\ combinedLines = <<>>
    /\ mpc = "idle"

\* No translation was requested.
TranslateIdle == exchanges = <<>>

\* The modal's state as useState initialises it; handleTranslate was not called.
ModalIdle ==
    /\ isModalOpen = FALSE
    /\ translationSource = [text |-> "", title |-> ""]
    /\ translatedText = <<>>
    /\ isLoadingTranslation = FALSE
    /\ requests = <<>>

\* const [error, setError] = useState(null)
NullError == [set |-> FALSE, message |-> <<>>]

NoLoadData == [shape |-> "none", originals |-> <<>>, reconstructions |-> <<>>]

NoLoadResponse ==
    [kind |-> "none", ok |-> FALSE, statusText |-> "",
     body |-> [type |-> "none", text |-> <<>>, data |-> NoLoadData]]

\* The App's load state as useState initialises it; the effect has not run.
LoadIdle ==
    /\ loadPc = "idle"
    /\ loadResponse = NoLoadResponse
    /\ isLoading = TRUE
    /\ error = NullError
    /\ manuscripts = <<>>
    /\ reconstructionModels = <<>>
    /\ selectedModels = <<>>

(***************************************************************************)
(* Bounds of the model.                                                    *)
(***************************************************************************)
MaxOrigLines == 3
MaxReconLines == 2
\* A scan's fault is placed on one of its first MaxFaultAt I/O operations.
MaxFaultAt == 7
\* The number of POST /api/translate requests a behaviour handles.
MaxExchanges == 2
\* The number of handleTranslate calls a behaviour makes.
MaxRequests == 2

Min(a, b) == IF a < b THEN a ELSE b

Range(s) == {s[i] : i \in 1..Len(s)}

SeqsUpTo(S, n) == UNION {[1..k -> S] : k \in 0..n}

(***************************************************************************)
(* Names, paths and the source tree.                                       *)
(***************************************************************************)

Slash == "/"

\* const DATA_PATH = '/data'
DATA_PATH == "/data"

\* const BUCKET_NAME = 'the-virtual-mani'
BUCKET_NAME == "the-virtual-mani"

\* The three server variants of the repository.
ServerJs == "server.js"
Part000 == "part_000"
Dockerfile == "Dockerfile"
Variants == {ServerJs, Part000, Dockerfile}

\* String.prototype.endsWith
endsWith(s, suffix) ==
    /\ Len(s) >= Len(suffix)
    /\ SubSeq(s, Len(s) - Len(suffix) + 1, Len(s)) = suffix

\* String.prototype.startsWith: what getFiles({ prefix }) matches object names by.
startsWith(s, prefix) ==
    /\ Len(s) >= Len(prefix)
    /\ SubSeq(s, 1, Len(prefix)) = prefix

XmlSuffix == <<".xml">>
TestInputSuffix == <<"_test_input", ".xml">>

AXml == <<"a", ".xml">>
ATestInputXml == <<"a", "_test_input", ".xml">>
BTxt == <<"b", ".txt">>
SubFolder == <<"sub">>
IndexXml == <<"index", ".xml">>

OriginalsFolder == <<"originals">>
GptFolder == <<"gpt-round-1">>
\* A folder whose name is a property every JavaScript object inherits from
\* Object.prototype.
ConstructorFolder == <<"constructor">>

\* The names a folder's files are drawn from, the files of its subfolder
\* "sub", the top-level folders and the top-level plain files.
FileNames == {AXml, ATestInputXml, BTxt}
NestedFileNames == {AXml}
TopFolders == {OriginalsFolder, GptFolder, ConstructorFolder}
TopFileNames == {IndexXml}

\* The order in which listings return names (alphabetical).
TopOrder == <<ConstructorFolder, GptFolder, IndexXml, OriginalsFolder>>
EntryOrder == <<AXml, ATestInputXml, BTxt, SubFolder>>

AbsentDir == [present |-> FALSE, files |-> {}, sub |-> {}]

\* A top-level folder: its files, and the files of its subfolder "sub" (the
\* subfolder exists when it holds a file).
DirNodes == [present : {TRUE}, files : SUBSET FileNames, sub : SUBSET NestedFileNames]

FolderOptions(f) ==
    IF f = ConstructorFolder
    THEN {AbsentDir, [present |-> TRUE, files |-> {AXml}, sub |-> {}]}
    ELSE DirNodes \cup {AbsentDir}

Trees ==
    {[dirs |-> d, topFiles |-> t] :
        d \in {g \in [TopFolders -> DirNodes \cup {AbsentDir}] :
                    \A f \in TopFolders : g[f] \in FolderOptions(f)},
        t \in SUBSET TopFileNames}

\* The text of the file at a path relative to the root: every file has a
\* content of its own.
Content(relPath) == <<"content of">> \o relPath

NoFault == [at |-> 0, code |-> "none"]
Faults == {NoFault} \cup [at : 1..MaxFaultAt, code : {"ENOENT", "EACCES"}]

NoError == [code |-> "none", message |-> <<>>]

\* path.join(a, b)
join(a, b) == a \o <<Slash>> \o b

\* path.basename: what follows the last separator.
RECURSIVE basename(_)
basename(name) ==
    IF \E i \in 1..Len(name) : name[i] = Slash
    THEN basename(Tail(name))
    ELSE name

\* The names of seq `order` that are in set S, in that order.
InOrder(order, S) ==
    LET Member(x) == x \in S
    IN  SelectSeq(order, Member)

(***************************************************************************)
(* The local filesystem as fs/promises shows it.                           *)
(***************************************************************************)

\* fs.readdir(DATA_PATH)
TopLevelItems(t) ==
    InOrder(TopOrder, {f \in TopFolders : t.dirs[f].present} \cup t.topFiles)

\* (await fs.stat(folderPath)).isDirectory()
IsDirectory(t, name) == name \in TopFolders /\ t.dirs[name].present

\* fs.readdir(folderPath): the folder's files and its subfolder.
FolderEntries(t, folderName) ==
    InOrder(EntryOrder,
            t.dirs[folderName].files
                \cup (IF t.dirs[folderName].sub # {} THEN {SubFolder} ELSE {}))

\* The error a failing fs call rejects with: Node names the error code, the
\* system call and the path in error.message.
FsError(code, syscall, path) ==
    [code |-> code, message |-> <<code, syscall>> \o path]

\* One awaited I/O call of a scan: it is counted and logged, and it rejects
\* when it is the operation the fault is placed on.
Io(st, flt, syscall, path) ==
    LET n == st.ops + 1
    IN  [st EXCEPT !.ops = n,
                   !.log = Append(@, [op |-> syscall, path |-> path]),
                   !.err = IF flt # NoFault /\ flt.at = n
                           THEN FsError(flt.code, syscall, path)
                           ELSE @]

\* const fileSystemData = { originals: {}, reconstructions: {} }
ScanStart ==
    [originals |-> <<>>, reconstructions |-> <<>>, ops |-> 0, log |-> <<>>,
     err |-> NoError]

(***************************************************************************)
(* getManuscriptData (server.js, part_000) and getCloudStorageData         *)
(* (Dockerfile).                                                           *)
(***************************************************************************)

\* Mutant: the _test_input.xml exclusion is forgotten.
QualifiesAnyXml(fileName) == endsWith(fileName, XmlSuffix)

\* fileName.endsWith('.xml') && !fileName.endsWith('_test_input.xml')
Qualifies(fileName) ==
    endsWith(fileName, XmlSuffix) /\ ~endsWith(fileName, TestInputSuffix)

\* The property names an object literal {} inherits from Object.prototype:
\* obj[name] is truthy for them although obj has no such key of its own.
ObjectPrototypeKeys == {ConstructorFolder, <<"toString">>, <<"__proto__">>}

\* !obj[key] is false: the key is the object's own (its value an object) or
\* is inherited.
Truthy(obj, key) == key \in DOMAIN obj \/ key \in ObjectPrototypeKeys

\* if (folderName === 'originals') originals[fileName] = content
\* else { if (!reconstructions[folderName]) reconstructions[folderName] = {};
\*        reconstructions[folderName][fileName] = content }
\* (the same statements in the three variants). A write through an inherited
\* property lands on the inherited object, not in fileSystemData.
Store(st, folderName, fileName, content) ==
    IF folderName = OriginalsFolder
    THEN [st EXCEPT !.originals = (fileName :> content) @@ @]
    ELSE LET created == IF ~Truthy(st.reconstructions, folderName)
                        THEN (folderName :> <<>>) @@ st.reconstructions
                        ELSE st.reconstructions
         IN  IF folderName \in DOMAIN created
             THEN [st EXCEPT !.reconstructions =
                      [created EXCEPT ![folderName] = (fileName :> content) @@ @]]
             ELSE st

\* Mutant: a failed read is caught per file and the file is skipped.
ReadFileIntoSkipping(st, flt, folderName, fileName) ==
    LET rd == Io(st, flt, "open", join(join(<<DATA_PATH>>, folderName), fileName))
    IN  IF rd.err # NoError THEN [rd EXCEPT !.err = NoError]
        ELSE Store(rd, folderName, fileName, Content(join(folderName, fileName)))

\* const content = await fs.readFile(filePath, 'utf8'), then the store.
ReadFileInto(st, flt, folderName, fileName) ==
    LET rd == Io(st, flt, "open", join(join(<<DATA_PATH>>, folderName), fileName))
    IN  IF rd.err # NoError THEN rd
        ELSE Store(rd, folderName, fileName, Content(join(folderName, fileName)))

\* for (const fileName of files) { ... }, from the k-th name on.
RECURSIVE ScanFiles(_, _, _, _, _)
ScanFiles(st, flt, folderName, files, k) ==
    IF st.err # NoError \/ k > Len(files) THEN st
    ELSE IF Qualifies(files[k])
         THEN ScanFiles(ReadFileInto(st, flt, folderName, files[k]),
                        flt, folderName, files, k + 1)
         ELSE ScanFiles(st, flt, folderName, files, k + 1)

\* The body of for (const folderName of topLevelItems): stat, skip what is
\* not a directory, list the folder, scan its files.
ScanFolder(st, flt, t, folderName) ==
    LET folderPath == join(<<DATA_PATH>>, folderName)
        stat == Io(st, flt, "stat", folderPath)
    IN  IF stat.err # NoError THEN stat
        ELSE IF ~IsDirectory(t, folderName) THEN stat
        ELSE LET ls == Io(stat, flt, "scandir", folderPath)
             IN  IF ls.err # NoError THEN ls
                 ELSE ScanFiles(ls, flt, folderName, FolderEntries(t, folderName), 1)

RECURSIVE ScanFolders(_, _, _, _, _)
ScanFolders(st, flt, t, items, k) ==
    IF st.err # NoError \/ k > Len(items) THEN st
    ELSE ScanFolders(ScanFolder(st, flt, t, items[k]), flt, t, items, k + 1)

\* part_000 only: try { await fs.access(DATA_PATH) } catch { throw new Error(...) }
AccessCheck(st, flt) ==
    LET ac == Io(st, flt, "access", <<DATA_PATH>>)
    IN  IF ac.err # NoError
        THEN [ac EXCEPT !.err =
                [code |-> "undefined",
                 message |-> <<"Server configuration error: Data directory not found at",
                               DATA_PATH>>]]
        ELSE ac

\* getManuscriptData: the scan's final state; err is the error it throws.
getManuscriptData(t, flt, accessCheck) ==
    LET st0 == IF accessCheck THEN AccessCheck(ScanStart, flt) ELSE ScanStart
    IN  IF st0.err # NoError THEN st0
        ELSE LET ls == Io(st0, flt, "scandir", <<DATA_PATH>>)
             IN  IF ls.err # NoError THEN ls
                 ELSE ScanFolders(ls, flt, t, TopLevelItems(t), 1)

(***************************************************************************)
(* The bucket as @google-cloud/storage shows it: the same tree, every file *)
(* an object named by its path relative to the root.                       *)
(***************************************************************************)

MapSeq(s, Op(_)) == [i \in 1..Len(s) |-> Op(s[i])]

\* The objects of one top-level folder: its files, then those of its subfolder.
FolderObjects(t, f) ==
    LET Direct(name) == join(f, name)
        Nested(name) == join(join(f, SubFolder), name)
    IN  MapSeq(InOrder(EntryOrder, t.dirs[f].files), Direct)
            \o MapSeq(InOrder(EntryOrder, t.dirs[f].sub), Nested)

\* Every object of the bucket, in listing order, from the k-th top-level name on.
RECURSIVE ObjectsFrom(_, _)
ObjectsFrom(t, k) ==
    IF k > Len(TopOrder) THEN <<>>
    ELSE LET name == TopOrder[k]
         IN  (IF name \in TopFolders
              THEN (IF t.dirs[name].present THEN FolderObjects(t, name) ELSE <<>>)
              ELSE (IF name \in t.topFiles THEN <<name>> ELSE <<>>))
             \o ObjectsFrom(t, k + 1)

BucketObjects(t) == ObjectsFrom(t, 1)

\* getFiles({ delimiter: '/' }): folders.prefixes, one "folder/" per
\* top-level folder that holds an object.
Prefixes(t) ==
    LET objects == BucketObjects(t)
        AsPrefix(f) == f \o <<Slash>>
        Holds(f) == \E i \in 1..Len(objects) : startsWith(objects[i], AsPrefix(f))
    IN  MapSeq(SelectSeq(TopOrder, Holds), AsPrefix)

\* getFiles({ prefix: folder }): every object whose name starts with the
\* prefix, at any depth.
ObjectsWithPrefix(t, folder) ==
    LET Under(name) == startsWith(name, folder)
    IN  SelectSeq(BucketObjects(t), Under)

\* folder.replace(/\/$/, '')
StripTrailingSlash(folder) ==
    IF folder # <<>> /\ folder[Len(folder)] = Slash
    THEN SubSeq(folder, 1, Len(folder) - 1)
    ELSE folder

\* const [content] = await file.download(); const fileName = path.basename(file.name);
\* then the store.
DownloadInto(st, flt, folderName, objectName) ==
    LET dl == Io(st, flt, "download", <<BUCKET_NAME, Slash>> \o objectName)
    IN  IF dl.err # NoError THEN dl
        ELSE Store(dl, folderName, basename(objectName), Content(objectName))

\* for (const file of files) { ... }, from the k-th object on.
RECURSIVE ScanObjects(_, _, _, _, _)
ScanObjects(st, flt, folderName, files, k) ==
    IF st.err # NoError \/ k > Len(files) THEN st
    ELSE IF endsWith(files[k], XmlSuffix) /\ ~endsWith(files[k], TestInputSuffix)
         THEN ScanObjects(DownloadInto(st, flt, folderName, files[k]),
                          flt, folderName, files, k + 1)
         ELSE ScanObjects(st, flt, folderName, files, k + 1)

\* The body of for (const folder of folders.prefixes).
ScanPrefix(st, flt, t, folder) ==
    LET folderName == StripTrailingSlash(folder)
    IN  IF folderName = <<>> THEN st
        ELSE LET ls == Io(st, flt, "getFiles", <<BUCKET_NAME, Slash>> \o folder)
             IN  IF ls.err # NoError THEN ls
                 ELSE ScanObjects(ls, flt, folderName, ObjectsWithPrefix(t, folder), 1)

RECURSIVE ScanPrefixes(_, _, _, _, _)
ScanPrefixes(st, flt, t, folders, k) ==
    IF st.err # NoError \/ k > Len(folders) THEN st
    ELSE ScanPrefixes(ScanPrefix(st, flt, t, folders[k]), flt, t, folders, k + 1)

\* getCloudStorageData: the scan's final state; err is the error it throws.
getCloudStorageData(t, flt) ==
    LET ls == Io(ScanStart, flt, "getFiles", <<BUCKET_NAME>>)
    IN  IF ls.err # NoError THEN ls
        ELSE ScanPrefixes(ls, flt, t, Prefixes(t), 1)

(***************************************************************************)
(* GET /api/manuscripts in the three variants.                             *)
(***************************************************************************)

NoData == [originals |-> <<>>, reconstructions |-> <<>>]

\* res.json(data): status 200 unless set.
JsonResponse(status, data) ==
    [status |-> status, kind |-> "json", data |-> data, text |-> <<>>]

\* res.status(s).send(string)
TextResponse(status, text) ==
    [status |-> status, kind |-> "text", data |-> NoData, text |-> text]

ScanData(st) == [originals |-> st.originals, reconstructions |-> st.reconstructions]

FailedToRetrieve == "Failed to retrieve manuscript data. Server-side error:"

\* server.js: the ENOENT branch names DATA_PATH itself, the other branch
\* sends error.message.
ManuscriptsServerJs(t, flt) ==
    LET st == getManuscriptData(t, flt, FALSE)
    IN  [sent |-> IF st.err = NoError
                  THEN <<JsonResponse(200, ScanData(st))>>
                  ELSE IF st.err.code = "ENOENT"
                  THEN <<TextResponse(500,
                            <<FailedToRetrieve,
                              "Server configuration error: The data directory does not exist at path",
                              DATA_PATH, "Please verify the volume mount.">>)>>
                  ELSE <<TextResponse(500, <<FailedToRetrieve>> \o st.err.message)>>,
         log |-> st.log]

\* part_000: the catch sends error.message.
ManuscriptsPart000(t, flt) ==
    LET st == getManuscriptData(t, flt, TRUE)
    IN  [sent |-> IF st.err = NoError
                  THEN <<JsonResponse(200, ScanData(st))>>
                  ELSE <<TextResponse(500, <<FailedToRetrieve>> \o st.err.message)>>,
         log |-> st.log]

\* Dockerfile: the catch sends a fixed text.
ManuscriptsDockerfile(t, flt) ==
    LET st == getCloudStorageData(t, flt)
    IN  [sent |-> IF st.err = NoError
                  THEN <<JsonResponse(200, ScanData(st))>>
                  ELSE <<TextResponse(500, <<"Failed to retrieve manuscript data.">>)>>,
         log |-> st.log]

EmptyTree == [dirs |-> [f \in TopFolders |-> AbsentDir], topFiles |-> {}]

\* The servers before any request.
ServerIdle ==
    /\ tree = EmptyTree
    /\ fault = NoFault
    /\ handled = {}
    /\ resp = [v \in Variants |-> <<>>]
    /\ ioLog = [v \in Variants |-> <<>>]

ServerInit ==
    /\ tree \in Trees
    /\ fault \in Faults
    /\ handled = {}
    /\ resp = [v \in Variants |-> <<>>]
    /\ ioLog = [v \in Variants |-> <<>>]
    /\ MergeIdle
    /\ TranslateIdle
    /\ ModalIdle
    /\ LoadIdle

\* GET /api/manuscripts handled by server.js.
GetManuscriptsServerJs ==
    /\ ServerJs \notin handled
    /\ handled' = handled \cup {ServerJs}
    /\ LET out == ManuscriptsServerJs(tree, fault)
       IN  /\ resp' = [resp EXCEPT ![ServerJs] = out.sent]
           /\ ioLog' = [ioLog EXCEPT ![ServerJs] = out.log]
    /\ UNCHANGED <<tree, fault>>
    /\ UNCHANGED <<mergeVars, translateVars, modalVars, loadVars>>

\* GET /api/manuscripts handled by part_000.
GetManuscriptsPart000 ==
    /\ Part000 \notin handled
    /\ handled' = handled \cup {Part000}
    /\ LET out == ManuscriptsPart000(tree, fault)
       IN  /\ resp' = [resp EXCEPT ![Part000] = out.sent]
           /\ ioLog' = [ioLog EXCEPT ![Part000] = out.log]
    /\ UNCHANGED <<tree, fault>>
    /\ UNCHANGED <<mergeVars, translateVars, modalVars, loadVars>>

\* GET /api/manuscripts handled by the Dockerfile's server.
GetManuscriptsDockerfile ==
    /\ Dockerfile \notin handled
    /\ handled' = handled \cup {Dockerfile}
    /\ LET out == ManuscriptsDockerfile(tree, fault)
       IN  /\ resp' = [resp EXCEPT ![Dockerfile] = out.sent]
           /\ ioLog' = [ioLog EXCEPT ![Dockerfile] = out.log]
    /\ UNCHANGED <<tree, fault>>
    /\ UNCHANGED <<mergeVars, translateVars, modalVars, loadVars>>

ServerNext ==
    \/ GetManuscriptsServerJs
    \/ GetManuscriptsPart000
    \/ GetManuscriptsDockerfile

SpecServer == ServerInit /\ [][ServerNext]_vars

(***************************************************************************)
(* POST /api/translate in the three variants.                              *)
(***************************************************************************)

\* req.body as express.json() leaves it: with or without a text field.
RequestBodies ==
    {[hasText |-> FALSE, text |-> ""],
     [hasText |-> TRUE, text |-> ""],
     [hasText |-> TRUE, text |-> "logos"]}

\* What generativeModel.generateContent does when called: it rejects, or it
\* resolves with a list of candidates (possibly none).
Upstreams ==
    {[ok |-> FALSE, candidates |-> <<>>],
     [ok |-> TRUE, candidates |-> <<>>],
     [ok |-> TRUE, candidates |-> <<"word">>],
     [ok |-> TRUE, candidates |-> <<"word", "speech">>]}

\* res.status(s).json({ error })
ErrorJson(status, message) ==
    [status |-> status, kind |-> "json", error |-> message, translation |-> "", text |-> ""]

\* res.json({ translation })
TranslationJson(translation) ==
    [status |-> 200, kind |-> "json", error |-> "", translation |-> translation, text |-> ""]

\* res.status(s).send(string)
PlainText(status, text) ==
    [status |-> status, kind |-> "text", error |-> "", translation |-> "", text |-> text]

TranslatePrompt ==
    "Translate the following Ancient Greek text to English. Provide only the English translation and nothing else:"

\* server.js and part_000: the handler answers 503 whatever the request holds.
TranslateDisabled(body, upstream) ==
    [sent |-> <<ErrorJson(503, "Translation service is not available.")>>,
     calls |-> <<>>]

\* Dockerfile: 400 when req.body.text is falsy; otherwise one upstream call,
\* whose first candidate is returned; a rejection, or candidates[0] being
\* undefined, is caught and answered 500.
TranslateVertex(body, upstream) ==
    IF ~body.hasText \/ body.text = ""
    THEN [sent |-> <<ErrorJson(400, "No text provided for translation.")>>,
          calls |-> <<>>]
    ELSE [sent |-> IF upstream.ok /\ upstream.candidates # <<>>
                   THEN <<TranslationJson(upstream.candidates[1])>>
                   ELSE <<PlainText(500, "Failed to translate text.")>>,
          calls |-> <<<<TranslatePrompt, body.text>>>>]

TranslateInit ==
    /\ ServerIdle
    /\ MergeIdle
    /\ ModalIdle
    /\ LoadIdle
    /\ exchanges = <<>>

\* The record kept of one handled request.
Exchange(v, body, upstream, out) ==
    [variant |-> v, body |-> body, upstream |-> upstream,
     sent |-> out.sent, calls |-> out.calls]

\* POST /api/translate handled by server.js.
PostTranslateServerJs ==
    /\ Len(exchanges) < MaxExchanges
    /\ \E body \in RequestBodies, upstream \in Upstreams :
          exchanges' = Append(exchanges,
              Exchange(ServerJs, body, upstream, TranslateDisabled(body, upstream)))
    /\ UNCHANGED <<mergeVars, serverVars, modalVars, loadVars>>

\* POST /api/translate handled by part_000 (the same handler as server.js).
PostTranslatePart000 ==
    /\ Len(exchanges) < MaxExchanges
    /\ \E body \in RequestBodies, upstream \in Upstreams :
          exchanges' = Append(exchanges,
              Exchange(Part000, body, upstream, TranslateDisabled(body, upstream)))
    /\ UNCHANGED <<mergeVars, serverVars, modalVars, loadVars>>

\* POST /api/translate handled by the Dockerfile's server.
PostTranslateDockerfile ==
    /\ Len(exchanges) < MaxExchanges
    /\ \E body \in RequestBodies, upstream \in Upstreams :
          exchanges' = Append(exchanges,
              Exchange(Dockerfile, body, upstream, TranslateVertex(body, upstream)))
    /\ UNCHANGED <<mergeVars, serverVars, modalVars, loadVars>>

TranslateNext ==
    \/ PostTranslateServerJs
    \/ PostTranslatePart000
    \/ PostTranslateDockerfile

SpecTranslate == TranslateInit /\ [][TranslateNext]_vars

(***************************************************************************)
(* Frontend: parseXML and the line merge of loadAndProcessData.            *)
(***************************************************************************)

\* Characters of a text node: one whitespace character and one letter.
WS == " "

\* The text contents a <line> element is given: empty, whitespace only, and
\* a word with leading and trailing whitespace.
TextContents == {<<>>, <<WS>>, <<WS, "a", WS>>}

\* The page/line attribute pairs of the <line> elements.
LineIds == {[page |-> "1", line |-> "2"], [page |-> "2", line |-> "1"]}

\* A <line page=P line=L>text</line> element of a document.
LineElements == {[page |-> id.page, line |-> id.line, textContent |-> t] :
                    id \in LineIds, t \in TextContents}

\* String.prototype.trim: strips leading and trailing whitespace.
RECURSIVE TrimStart(_)
TrimStart(s) == IF s # <<>> /\ Head(s) = WS THEN TrimStart(Tail(s)) ELSE s

RECURSIVE TrimEnd(_)
TrimEnd(s) == IF s # <<>> /\ s[Len(s)] = WS THEN TrimEnd(SubSeq(s, 1, Len(s) - 1)) ELSE s

trim(s) == TrimEnd(TrimStart(s))

\* parseXML: every <line> element, in document order, as {page, line, text},
\* text trimmed; in reconstruction mode the lines with empty text are dropped.
parseXML(xmlString, isReconstruction) ==
    LET lines == [i \in 1..Len(xmlString) |->
                    [page |-> xmlString[i].page,
                     line |-> xmlString[i].line,
                     text |-> trim(xmlString[i].textContent)]]
        HasText(l) == l.text # <<>>
    IN  IF isReconstruction THEN SelectSeq(lines, HasText) ELSE lines

\* { ...reconstructionLines[currentReconLine], isFilled: true }
FilledFrom(reconLine) ==
    [page |-> reconLine.page, line |-> reconLine.line, text |-> reconLine.text,
     isFilled |-> TRUE]

\* { ...line, isFilled: false }
Unfilled(line) ==
    [page |-> line.page, line |-> line.line, text |-> line.text, isFilled |-> FALSE]

\* The callback of originalLines.map, applied from element k on with the
\* closure variable currentReconLine (0-based) at cur.
RECURSIVE MapFrom(_, _, _, _)
MapFrom(orig, recon, k, cur) ==
    IF k > Len(orig) THEN <<>>
    ELSE IF orig[k].text = <<>> /\ cur + 1 <= Len(recon)
         THEN <<FilledFrom(recon[cur + 1])>> \o MapFrom(orig, recon, k + 1, cur + 1)
         ELSE <<Unfilled(orig[k])>> \o MapFrom(orig, recon, k + 1, cur)

\* Mutant: currentReconLine++ forgotten.
RECURSIVE MapFromNoAdvance(_, _, _)
MapFromNoAdvance(orig, recon, k) ==
    IF k > Len(orig) THEN <<>>
    ELSE IF orig[k].text = <<>> /\ 1 <= Len(recon)
         THEN <<FilledFrom(recon[1])>> \o MapFromNoAdvance(orig, recon, k + 1)
         ELSE <<Unfilled(orig[k])>> \o MapFromNoAdvance(orig, recon, k + 1)

CombinedLinesNoAdvance(orig, recon) == MapFromNoAdvance(orig, recon, 1)

\* Mutant: an empty line that no reconstruction line is left for is dropped
\* instead of being emitted unfilled.
RECURSIVE MapFromDropping(_, _, _, _)
MapFromDropping(orig, recon, k, cur) ==
    IF k > Len(orig) THEN <<>>
    ELSE IF orig[k].text = <<>> /\ cur + 1 <= Len(recon)
         THEN <<FilledFrom(recon[cur + 1])>> \o MapFromDropping(orig, recon, k + 1, cur + 1)
         ELSE IF orig[k].text = <<>>
              THEN MapFromDropping(orig, recon, k + 1, cur)
              ELSE <<Unfilled(orig[k])>> \o MapFromDropping(orig, recon, k + 1, cur)

CombinedLinesDropping(orig, recon) == MapFromDropping(orig, recon, 1, 0)

\* Mutant: the test that reconstructionLines[currentReconLine] exists is
\* forgotten, so an empty line past the last reconstruction line is still
\* marked as filled.
RECURSIVE MapFromUnchecked(_, _, _, _)
MapFromUnchecked(orig, recon, k, cur) ==
    IF k > Len(orig) THEN <<>>
    ELSE IF orig[k].text = <<>>
         THEN <<IF cur + 1 <= Len(recon) THEN FilledFrom(recon[cur + 1])
                ELSE [Unfilled(orig[k]) EXCEPT !.isFilled = TRUE]>>
              \o MapFromUnchecked(orig, recon, k + 1, cur + 1)
         ELSE <<Unfilled(orig[k])>> \o MapFromUnchecked(orig, recon, k + 1, cur)

CombinedLinesUnchecked(orig, recon) == MapFromUnchecked(orig, recon, 1, 0)

\* let currentReconLine = 0; const combinedLines = originalLines.map(...)
CombinedLines(orig, recon) == MapFrom(orig, recon, 1, 0)

MergeInit ==
    /\ ServerIdle
    /\ TranslateIdle
    /\ ModalIdle
    /\ LoadIdle
    /\ originalXML \in SeqsUpTo(LineElements, MaxOrigLines)
    /\ reconstructionXML \in SeqsUpTo(LineElements, MaxReconLines)
    /\ originalLines = <<>>
    /\ reconstructionLines = <<>>
    /\ combinedLines = <<>>
    /\ mpc = "fetched"

\* One manuscript and one reconstruction folder of loadAndProcessData: both
\* documents are parsed and the reconstruction is merged into the original.
ProcessManuscript ==
    /\ mpc = "fetched"
    /\ originalLines' = parseXML(originalXML, FALSE)
    /\ reconstructionLines' = parseXML(reconstructionXML, TRUE)
    /\ combinedLines' = CombinedLines(parseXML(originalXML, FALSE),
                                      parseXML(reconstructionXML, TRUE))
    /\ mpc' = "done"
    /\ UNCHANGED <<originalXML, reconstructionXML>>
    /\ UNCHANGED <<serverVars, translateVars, modalVars, loadVars>>

MergeNext == ProcessManuscript

SpecMerge == MergeInit /\ [][MergeNext]_vars

(***************************************************************************)
(* Frontend: handleTranslate, translateTextViaApi and the translation      *)
(* modal.                                                                  *)
(***************************************************************************)

\* What ManuscriptView hands to onTranslate: its text content and its title.
Sources ==
    {[text |-> "alpha", title |-> "Original"],
     [text |-> "beta", title |-> "GPT-4o Run 1"]}

\* The translation the backend returns for a text.
Translation(text) == <<"English of", text>>

NoReply == [kind |-> "none", ok |-> FALSE, statusText |-> "", body |-> <<>>]

\* How the fetch of translateTextViaApi can settle for a text: it rejects
\* (network error), or it resolves with a response: 200 { translation },
\* 500 with a text, 503 with a JSON error.
Replies(text) ==
    {[kind |-> "reject", ok |-> FALSE, statusText |-> "", body |-> <<"Failed to fetch">>],
     [kind |-> "response", ok |-> TRUE, statusText |-> "OK", body |-> Translation(text)],
     [kind |-> "response", ok |-> FALSE, statusText |-> "Internal Server Error",
      body |-> <<"Failed to translate text.">>],
     [kind |-> "response", ok |-> FALSE, statusText |-> "Service Unavailable",
      body |-> <<"{\"error\":\"Translation service is not available.\"}">>]}

\* `Error: ${err.message}`
ErrorText(message) == <<"Error:">> \o message

\* What handleTranslate stores in translatedText once translateTextViaApi
\* settled on a response: data.translation, or the message of the Error
\* thrown for a response that is not ok.
TextOfResponse(reply) ==
    IF reply.ok
    THEN reply.body
    ELSE ErrorText(<<"Translation request failed:", reply.statusText, "-">> \o reply.body)

\* One handleTranslate call: its arguments, where translateTextViaApi stands
\* ("fetch": awaiting fetch, "body": awaiting response.json()/text(),
\* "settled"), the response received and the text it stored.
NewRequest(source) ==
    [source |-> source, stage |-> "fetch", response |-> NoReply, result |-> <<>>]

ModalInit ==
    /\ ServerIdle
    /\ MergeIdle
    /\ TranslateIdle
    /\ ModalIdle
    /\ LoadIdle

\* handleTranslate up to its await: the four setters, then the fetch is
\* issued. The Translate buttons lie under the modal's full-screen overlay,
\* so a call is made while the modal is closed.
HandleTranslate ==
    /\ ~isModalOpen
    /\ Len(requests) < MaxRequests
    /\ \E source \in Sources :
          /\ translationSource' = [text |-> source.text, title |-> source.title]
          /\ requests' = Append(requests, NewRequest(source))
    /\ isModalOpen' = TRUE
    /\ isLoadingTranslation' = TRUE
    /\ translatedText' = <<>>
    /\ UNCHANGED <<mergeVars, serverVars, translateVars, loadVars>>

\* onClose of the modal: setIsModalOpen(false), nothing else.
CloseModal ==
    /\ isModalOpen
    /\ isModalOpen' = FALSE
    /\ UNCHANGED <<translationSource, translatedText, isLoadingTranslation, requests>>
    /\ UNCHANGED <<mergeVars, serverVars, translateVars, loadVars>>

\* The fetch of request i settles. A rejection is caught by handleTranslate:
\* setTranslatedText(`Error: ...`), then the finally block; a response moves
\* translateTextViaApi to reading its body.
FetchSettles ==
    \E i \in 1..Len(requests) :
        /\ requests[i].stage = "fetch"
        /\ \E reply \in Replies(requests[i].source.text) :
              IF reply.kind = "reject"
              THEN /\ translatedText' = ErrorText(reply.body)
                   /\ isLoadingTranslation' = FALSE
                   /\ requests' = [requests EXCEPT ![i].stage = "settled",
                                                   ![i].response = reply,
                                                   ![i].result = ErrorText(reply.body)]
              ELSE /\ requests' = [requests EXCEPT ![i].stage = "body",
                                                   ![i].response = reply]
                   /\ UNCHANGED <<translatedText, isLoadingTranslation>>
        /\ UNCHANGED <<isModalOpen, translationSource>>
        /\ UNCHANGED <<mergeVars, serverVars, translateVars, loadVars>>

\* The body of request i's response was read: translateTextViaApi returns
\* data.translation or throws, handleTranslate stores the text and its
\* finally block clears the loading flag.
BodySettles ==
    \E i \in 1..Len(requests) :
        /\ requests[i].stage = "body"
        /\ translatedText' = TextOfResponse(requests[i].response)
        /\ isLoadingTranslation' = FALSE
        /\ requests' = [requests EXCEPT ![i].stage = "settled",
                                        ![i].result = TextOfResponse(requests[i].response)]
        /\ UNCHANGED <<isModalOpen, translationSource>>
        /\ UNCHANGED <<mergeVars, serverVars, translateVars, loadVars>>

ModalNext ==
    \/ HandleTranslate
    \/ CloseModal
    \/ FetchSettles
    \/ BodySettles

SpecModal == ModalInit /\ [][ModalNext]_vars

(***************************************************************************)
(* Frontend: fetchDataFromApi, loadAndProcessData and toggleModel.         *)
(***************************************************************************)

Dash == "-"
Space == " "

\* Reconstruction folders as the fetched data names them, split into the
\* pieces that folderName.split('-') separates.
GptRound1 == <<"gpt", Dash, "round", Dash, "1">>
GptRunOne == <<"gpt", Dash, "Run 1">>
ClaudeRound2 == <<"claude", Dash, "round", Dash, "2">>

\* Key order of fileSystemData.reconstructions (the order the server
\* inserted the folders in) and the folders the model draws from.
FolderOrder == <<ClaudeRound2, GptRunOne, GptRound1>>
LoadFolders == Range(FolderOrder)

\* The position of the first '-' of a folder name, 0 when it has none.
FirstDash(folderName) ==
    IF \E i \in 1..Len(folderName) : folderName[i] = Dash
    THEN CHOOSE i \in 1..Len(folderName) :
            /\ folderName[i] = Dash
            /\ \A j \in 1..(i - 1) : folderName[j] # Dash
    ELSE 0

\* parts[0] of folderName.split('-')
ModelKey(folderName) ==
    IF FirstDash(folderName) = 0
    THEN folderName
    ELSE SubSeq(folderName, 1, FirstDash(folderName) - 1)

\* parts.slice(1).join('-')
RunKey(folderName) ==
    IF FirstDash(folderName) = 0
    THEN <<>>
    ELSE SubSeq(folderName, FirstDash(folderName) + 1, Len(folderName))

modelNameMapping ==
    (<<"gpt">> :> <<"GPT-4o">>) @@ (<<"gemini">> :> <<"Gemini 1.5">>)
        @@ (<<"claude">> :> <<"Claude Sonnet 3.5">>)

runNameMapping ==
    (<<"round", Dash, "1">> :> <<"Run 1">>) @@ (<<"round", Dash, "2">> :> <<"Run 2">>)

\* modelNameMapping[modelKey] || modelKey
ModelName(modelKey) ==
    IF modelKey \in DOMAIN modelNameMapping THEN modelNameMapping[modelKey] ELSE modelKey

\* runNameMapping[runKey] || runKey
RunName(runKey) ==
    IF runKey \in DOMAIN runNameMapping THEN runNameMapping[runKey] ELSE runKey

\* `${modelName} ${runName}`
FullModelName(folderName) ==
    ModelName(ModelKey(folderName)) \o <<Space>> \o RunName(RunKey(folderName))

\* Array.prototype.sort() on the display names the model can produce.
SortOrder == <<<<"Claude Sonnet 3.5", Space, "Run 2">>, <<"GPT-4o", Space, "Run 1">>>>

\* getLacunaSize: 'unknown' unless the name starts with digits-digits; the
\* file names of the model start with a letter.
Digits == {"0", "1", "2", "3", "4", "5", "6", "7", "8", "9"}

getLacunaSize(fileName) ==
    IF Len(fileName) >= 3 /\ fileName[1] \in Digits /\ fileName[2] = Dash
          /\ fileName[3] \in Digits
    THEN IF fileName[1] \in {"1", "2", "3", "4"} THEN "1-4"
         ELSE IF fileName[1] \in {"5", "6", "7", "8"} THEN "5-8"
         ELSE IF fileName[1] = "9" THEN "9-12"
         ELSE "other"
    ELSE "unknown"

\* The text of a fetched file: the empty string, or a document given by its
\* <line> elements.
EmptyText == [empty |-> TRUE, xml |-> <<>>]

GapDoc ==
    [empty |-> FALSE,
     xml |-> <<[page |-> "1", line |-> "2", textContent |-> <<WS>>],
               [page |-> "2", line |-> "1", textContent |-> <<WS, "a", WS>>]>>]

FillDoc ==
    [empty |-> FALSE,
     xml |-> <<[page |-> "1", line |-> "2", textContent |-> <<WS, "a", WS>>]>>]

OriginalTexts == {EmptyText, GapDoc}
ReconstructionTexts == {EmptyText, FillDoc}

\* The value of fileSystemData.reconstructions[folderName]: a mapping from
\* file names to texts, or null in a body that is not the server's.
NullFolder == [isNull |-> TRUE, files |-> <<>>]
FolderValues ==
    {[isNull |-> FALSE, files |-> f] : f \in [{AXml} -> ReconstructionTexts]}

\* The JSON bodies fetchDataFromApi can decode: the server's
\* { originals, reconstructions }, the same with a null folder, and an object
\* without originals.
WellFormedData ==
    {[shape |-> "data", originals |-> o, reconstructions |-> r] :
        o \in UNION {[S -> OriginalTexts] : S \in SUBSET {AXml, ATestInputXml}},
        r \in UNION {[F -> FolderValues] : F \in SUBSET LoadFolders}}

MalformedData ==
    {[shape |-> "data", originals |-> (AXml :> GapDoc),
      reconstructions |-> (ClaudeRound2 :> NullFolder)],
     [shape |-> "no originals", originals |-> <<>>, reconstructions |-> <<>>]}

\* How the fetch of fetchDataFromApi can settle: it rejects, or it resolves
\* with a response: 200 with a JSON body, 200 with a body that is not JSON,
\* 500 with a text.
LoadReplies ==
    {[kind |-> "reject", ok |-> FALSE, statusText |-> "",
      body |-> [type |-> "none", text |-> <<"Failed to fetch">>, data |-> NoLoadData]],
     [kind |-> "response", ok |-> FALSE, statusText |-> "Internal Server Error",
      body |-> [type |-> "text", text |-> <<"Failed to retrieve manuscript data.">>,
                data |-> NoLoadData]],
     [kind |-> "response", ok |-> TRUE, statusText |-> "OK",
      body |-> [type |-> "text", text |-> <<"<!doctype html>">>, data |-> NoLoadData]]}
    \cup {[kind |-> "response", ok |-> TRUE, statusText |-> "OK",
           body |-> [type |-> "json", text |-> <<>>, data |-> d]] :
            d \in WellFormedData \cup MalformedData}

\* Object.keys(fileSystemData.originals).filter(not _test_input.xml)
OriginalFiles(data) ==
    LET Kept(fileName) == ~endsWith(fileName, TestInputSuffix)
    IN  SelectSeq(InOrder(EntryOrder, DOMAIN data.originals), Kept)

\* The folders `for (const folderName in fileSystemData.reconstructions)`
\* visits, in order.
FolderKeys(data) == InOrder(FolderOrder, DOMAIN data.reconstructions)

\* if (fileSystemData.reconstructions[folderName][fileName]): the folder has
\* the file and its text is not the empty string.
HasReconstruction(data, folderName, fileName) ==
    /\ fileName \in DOMAIN data.reconstructions[folderName].files
    /\ ~data.reconstructions[folderName].files[fileName].empty

\* reconstructions[fullModelName] = combinedLines
Assign(obj, key, value) ==
    [k \in DOMAIN obj \cup {key} |-> IF k = key THEN value ELSE obj[k]]

\* The body of the for-in loop, from the k-th folder on: the manuscript's
\* reconstructions object as the loop leaves it.
RECURSIVE ReconstructionsFrom(_, _, _, _, _)
ReconstructionsFrom(data, fileName, originalLinesOf, k, acc) ==
    IF k > Len(FolderKeys(data)) THEN acc
    ELSE LET folderName == FolderKeys(data)[k]
             next ==
                 IF HasReconstruction(data, folderName, fileName)
                 THEN Assign(acc, FullModelName(folderName),
                             CombinedLines(originalLinesOf,
                                 parseXML(data.reconstructions[folderName].files[fileName].xml,
                                          TRUE)))
                 ELSE acc
         IN  ReconstructionsFrom(data, fileName, originalLinesOf, k + 1, next)

\* The callback of originalFiles.map: one manuscript.
Manuscript(data, fileName) ==
    LET lines == parseXML(data.originals[fileName].xml, FALSE)
    IN  [id |-> fileName,
         lacunaSize |-> getLacunaSize(fileName),
         original |-> lines,
         reconstructions |-> ReconstructionsFrom(data, fileName, lines, 1, <<>>)]

\* const loadedData = originalFiles.map(...)
LoadedData(data) ==
    [i \in 1..Len(OriginalFiles(data)) |-> Manuscript(data, OriginalFiles(data)[i])]

\* loadedModels: every fullModelName a manuscript was given a key for.
LoadedModels(data) ==
    UNION {DOMAIN LoadedData(data)[i].reconstructions : i \in 1..Len(OriginalFiles(data))}

\* Array.from(loadedModels).sort()
AllModels(data) == InOrder(SortOrder, LoadedModels(data))

\* The processing throws a TypeError: Object.keys(undefined), or a property
\* read on a null folder while a manuscript is built.
ProcessingThrows(data) ==
    \/ data.shape = "no originals"
    \/ /\ OriginalFiles(data) # <<>>
       /\ \E f \in DOMAIN data.reconstructions : data.reconstructions[f].isNull

\* The message of the error fetchDataFromApi or the processing throws once
\* the body of the response was read; <<>> when nothing is thrown.
ThrownMessage(response) ==
    IF ~response.ok
    THEN <<"Failed to fetch manuscript data:", response.statusText, "-">>
            \o response.body.text
    ELSE IF response.body.type # "json"
    THEN <<"Unexpected token < in JSON at position 0">>
    ELSE IF ProcessingThrows(response.body.data)
    THEN <<"Cannot read properties of null or undefined">>
    ELSE <<>>

Failed(message) ==
    [error |-> [set |-> TRUE, message |-> message], manuscripts |-> <<>>,
     reconstructionModels |-> <<>>, selectedModels |-> <<>>, isLoading |-> FALSE]

\* Mutant: setIsLoading(false) sits at the end of the try block instead of in
\* a finally block.
SettledNoFinally(response) ==
    IF response.kind = "reject"
    THEN [Failed(response.body.text) EXCEPT !.isLoading = TRUE]
    ELSE IF ThrownMessage(response) # <<>>
    THEN [Failed(ThrownMessage(response)) EXCEPT !.isLoading = TRUE]
    ELSE [error |-> NullError,
          manuscripts |-> LoadedData(response.body.data),
          reconstructionModels |-> AllModels(response.body.data),
          selectedModels |-> AllModels(response.body.data),
          isLoading |-> FALSE]

\* The App state loadAndProcessData leaves once `response` settled it: the
\* catch block stores the message, the try block the three results, and the
\* finally block clears isLoading either way.
Settled(response) ==
    IF response.kind = "reject"
    THEN Failed(response.body.text)
    ELSE IF ThrownMessage(response) # <<>>
    THEN Failed(ThrownMessage(response))
    ELSE [error |-> NullError,
          manuscripts |-> LoadedData(response.body.data),
          reconstructionModels |-> AllModels(response.body.data),
          selectedModels |-> AllModels(response.body.data),
          isLoading |-> FALSE]

\* The effect has run: loadAndProcessData awaits the fetch of
\* fetchDataFromApi.
LoadInit ==
    /\ ServerIdle
    /\ MergeIdle
    /\ TranslateIdle
    /\ ModalIdle
    /\ loadPc = "fetching"
    /\ loadResponse = NoLoadResponse
    /\ isLoading = TRUE
    /\ error = NullError
    /\ manuscripts = <<>>
    /\ reconstructionModels = <<>>
    /\ selectedModels = <<>>

\* The fetch settles. A rejection reaches the catch and finally blocks of
\* loadAndProcessData; a response moves fetchDataFromApi to reading its body.
LoadFetchSettles ==
    /\ loadPc = "fetching"
    /\ \E reply \in LoadReplies :
          /\ loadResponse' = reply
          /\ IF reply.kind = "reject"
             THEN /\ loadPc' = "done"
                  /\ error' = Settled(reply).error
                  /\ manuscripts' = Settled(reply).manuscripts
                  /\ reconstructionModels' = Settled(reply).reconstructionModels
                  /\ selectedModels' = Settled(reply).selectedModels
                  /\ isLoading' = Settled(reply).isLoading
             ELSE /\ loadPc' = "reading"
                  /\ UNCHANGED <<isLoading, error, manuscripts, reconstructionModels,
                                 selectedModels>>
    /\ UNCHANGED <<mergeVars, serverVars, translateVars, modalVars>>

\* The body was read (response.text() or response.json()): the rest of
\* loadAndProcessData runs to its end.
LoadBodySettles ==
    /\ loadPc = "reading"
    /\ loadPc' = "done"
    /\ error' = Settled(loadResponse).error
    /\ manuscripts' = Settled(loadResponse).manuscripts
    /\ reconstructionModels' = Settled(loadResponse).reconstructionModels
    /\ selectedModels' = Settled(loadResponse).selectedModels
    /\ isLoading' = Settled(loadResponse).isLoading
    /\ UNCHANGED loadResponse
    /\ UNCHANGED <<mergeVars, serverVars, translateVars, modalVars>>

\* toggleModel, from a checkbox of FilterControls, which is rendered once the
\* load ended without an error.
ToggleModel ==
    /\ ~isLoading
    /\ ~error.set
    /\ \E model \in Range(reconstructionModels) :
          selectedModels' =
              IF model \in Range(selectedModels)
              THEN LET Other(m) == m # model IN SelectSeq(selectedModels, Other)
              ELSE Append(selectedModels, model)
    /\ UNCHANGED <<loadPc, loadResponse, isLoading, error, manuscripts,
                   reconstructionModels>>
    /\ UNCHANGED <<mergeVars, serverVars, translateVars, modalVars>>

LoadNext ==
    \/ LoadFetchSettles
    \/ LoadBodySettles
    \/ ToggleModel

SpecLoad == LoadInit /\ [][LoadNext]_vars

\* The event loop runs the continuation of every settled promise, and the
\* browser settles every fetch and body read (with a response or an error).
SpecLoadFair ==
    SpecLoad /\ WF_vars(LoadFetchSettles) /\ WF_vars(LoadBodySettles)

(***************************************************************************)
(* Claims about GET /api/manuscripts (checked under SpecServer).           *)
(***************************************************************************)

\* The qualifying file names of top-level folder f, stated from the rule:
\* the name ends in .xml and not in _test_input.xml.
QualifyingFiles(t, f) ==
    {n \in t.dirs[f].files :
        endsWith(n, XmlSuffix) /\ ~endsWith(n, TestInputSuffix)}

\* The originals mapping the grouping rule asks for.
ExpectedOriginals(t) ==
    [n \in QualifyingFiles(t, OriginalsFolder) |-> Content(join(OriginalsFolder, n))]

\* The reconstructions mapping the grouping rule asks for: one inner mapping
\* per folder other than originals that holds a qualifying file.
ExpectedReconstructions(t) ==
    [f \in {g \in TopFolders \ {OriginalsFolder} : QualifyingFiles(t, g) # {}} |->
        [n \in QualifyingFiles(t, f) |-> Content(join(f, n))]]

\* The data of the single response variant v sent.
SentData(v) == resp[v][1].data

Answered200(v) == v \in handled /\ Len(resp[v]) = 1 /\ resp[v][1].status = 200

\* C5: no key ending in _test_input.xml appears in originals or in an inner
\* mapping of reconstructions, in any response of any server variant.
C5_NoTestInputKey ==
    \A v \in handled : \A i \in 1..Len(resp[v]) :
        LET d == resp[v][i].data
        IN  /\ \A n \in DOMAIN d.originals : ~endsWith(n, TestInputSuffix)
            /\ \A f \in DOMAIN d.reconstructions :
                  \A n \in DOMAIN d.reconstructions[f] : ~endsWith(n, TestInputSuffix)

\* C5 witness: the three variants answered 200 for a tree whose originals
\* folder and reconstruction folder both hold a _test_input.xml file beside
\* a qualifying one.
C5_Witness ==
    /\ \A v \in Variants : Answered200(v) /\ AXml \in DOMAIN SentData(v).originals
    /\ {AXml, ATestInputXml} \subseteq tree.dirs[OriginalsFolder].files
    /\ {AXml, ATestInputXml} \subseteq tree.dirs[GptFolder].files

\* C6: on a successful aggregation by server.js the output is exactly the
\* grouping: originals holds the qualifying files of the originals folder,
\* reconstructions[D] the qualifying files of every other top-level folder D,
\* each with its content, and no other key.
C6_OutputIsExactlyTheGrouping ==
    Answered200(ServerJs) =>
        /\ SentData(ServerJs).originals = ExpectedOriginals(tree)
        /\ SentData(ServerJs).reconstructions = ExpectedReconstructions(tree)

\* The number of I/O calls a scan of the local tree makes when none fails:
\* the root listing, one stat per top-level item, one listing per directory,
\* one read per qualifying file.
NeededOps(t) ==
    1 + Len(TopLevelItems(t))
      + Cardinality({f \in TopFolders : t.dirs[f].present})
      + Cardinality({<<f, n>> \in TopFolders \X FileNames :
                        t.dirs[f].present /\ n \in QualifyingFiles(t, f)})

RootUnreachable(v) ==
    /\ fault # NoFault
    /\ fault.at = 1 \/ (v = Part000 /\ fault.at = 2)

ConfiguredRoot(v) == IF v = Dockerfile THEN BUCKET_NAME ELSE DATA_PATH

\* C9: when the data root is unreachable, every variant answers 500 with a
\* message that names the configured root (DATA_PATH or the bucket name),
\* whatever the kind of failure.
C9_UnreachableRootIsNamed ==
    \A v \in handled :
        RootUnreachable(v) =>
            /\ Len(resp[v]) = 1
            /\ resp[v][1].status = 500
            /\ ConfiguredRoot(v) \in Range(resp[v][1].text)

\* C10: getManuscriptData and getCloudStorageData produce the same
\* {originals, reconstructions} for the same source tree.
C10_LocalAndBucketAgree ==
    (Answered200(ServerJs) /\ Answered200(Dockerfile)) =>
        SentData(ServerJs) = SentData(Dockerfile)

\* The originals folder exists and holds no qualifying file, and no I/O call
\* of the scan fails.
EmptyOriginals ==
    /\ fault = NoFault
    /\ tree.dirs[OriginalsFolder].present
    /\ QualifyingFiles(tree, OriginalsFolder) = {}

\* C11: when the originals folder exists but holds no qualifying file, GET
\* /api/manuscripts of server.js and of part_000 answers 200 with originals
\* the empty mapping and reconstructions holding every qualifying file of the
\* other folders.
C11_EmptyOriginalsIs200 ==
    \A v \in {ServerJs, Part000} :
        (v \in handled /\ EmptyOriginals) =>
            /\ Len(resp[v]) = 1
            /\ resp[v][1].status = 200
            /\ resp[v][1].kind = "json"
            /\ DOMAIN resp[v][1].data.originals = {}
            /\ resp[v][1].data.reconstructions = ExpectedReconstructions(tree)

(***************************************************************************)
(* Claims about POST /api/translate (checked under SpecTranslate).         *)
(***************************************************************************)

\* C8: a request whose body has no text field is answered with status 400
\* and a JSON error body, in every server variant.
C8_MissingTextIs400 ==
    \A i \in 1..Len(exchanges) :
        ~exchanges[i].body.hasText =>
            /\ Len(exchanges[i].sent) = 1
            /\ exchanges[i].sent[1].status = 400
            /\ exchanges[i].sent[1].kind = "json"
            /\ exchanges[i].sent[1].error # ""

\* The request supplies a text the handler can forward.
SuppliesText(body) == body.hasText /\ body.text # ""

\* The upstream call rejects or resolves without a candidate.
UpstreamFailed(upstream) == ~upstream.ok \/ upstream.candidates = <<>>

\* C12: for a request that supplies text, in every variant, exactly
\* one upstream call is made; when it fails or returns no candidate the
\* response is a 500 or a 503, and when it succeeds the response is 200 with
\* translation the first candidate's text.
C12_OneUpstreamCallPerRequest ==
    \A i \in 1..Len(exchanges) :
        LET e == exchanges[i]
        IN  SuppliesText(e.body) =>
                /\ Len(e.sent) = 1
                /\ Len(e.calls) = 1
                /\ UpstreamFailed(e.upstream) => e.sent[1].status \in {500, 503}
                /\ ~UpstreamFailed(e.upstream) =>
                      /\ e.sent[1].status = 200
                      /\ e.sent[1].translation = e.upstream.candidates[1]

\* What the handlers do with a request that supplies a non-empty text: the
\* Dockerfile variant makes exactly one upstream call, whose prompt holds the
\* text verbatim, and answers 500 when the call fails or returns no candidate
\* and 200 with translation the first candidate's text otherwise; server.js
\* and part_000 make no upstream call and answer 503 with a JSON error body.
TranslateByVariant ==
    \A i \in 1..Len(exchanges) :
        LET e == exchanges[i]
        IN  SuppliesText(e.body) =>
                /\ Len(e.sent) = 1
                /\ IF e.variant = Dockerfile
                   THEN /\ e.calls = <<<<TranslatePrompt, e.body.text>>>>
                        /\ UpstreamFailed(e.upstream) =>
                              /\ e.sent[1].status = 500
                              /\ e.sent[1].translation = ""
                        /\ ~UpstreamFailed(e.upstream) =>
                              /\ e.sent[1].status = 200
                              /\ e.sent[1].kind = "json"
                              /\ e.sent[1].translation = e.upstream.candidates[1]
                   ELSE /\ e.calls = <<>>
                        /\ e.sent[1].status = 503
                        /\ e.sent[1].kind = "json"
                        /\ e.sent[1].error # ""

\* The Dockerfile variant answered a request with text from an upstream
\* result of two candidates, and answered another whose upstream call failed.
TranslateByVariantReached ==
    \E i, j \in 1..Len(exchanges) :
        /\ exchanges[i].variant = Dockerfile
        /\ SuppliesText(exchanges[i].body)
        /\ Len(exchanges[i].upstream.candidates) = 2
        /\ exchanges[i].sent[1].translation = "word"
        /\ exchanges[j].variant = Dockerfile
        /\ SuppliesText(exchanges[j].body)
        /\ ~exchanges[j].upstream.ok
        /\ exchanges[j].sent[1].status = 500

(***************************************************************************)
(* Claims about the translation modal (checked under SpecModal).           *)
(***************************************************************************)

\* C13: under any interleaving of handleTranslate calls and their responses,
\* translationSource is that of the most recent call; while that call is
\* outstanding isLoadingTranslation is true; and whenever the modal is not
\* loading and shows a non-empty translatedText, that text is the response
\* (or the error) of the most recent call.
C13_ModalShowsLatestRequest ==
    requests # <<>> =>
        LET last == requests[Len(requests)]
        IN  /\ translationSource = last.source
            /\ last.stage # "settled" => isLoadingTranslation
            /\ (~isLoadingTranslation /\ translatedText # <<>>) =>
                  /\ last.stage = "settled"
                  /\ translatedText = last.result

(***************************************************************************)
(* Claims about the initial load (checked under SpecLoadFair and SpecLoad). *)
(***************************************************************************)

\* The load ended in the catch block: error is set and nothing was stored.
LoadFailedOutcome ==
    /\ error.set
    /\ error.message # <<>>
    /\ manuscripts = <<>>
    /\ reconstructionModels = <<>>
    /\ selectedModels = <<>>

\* The load ended in the try block: error is null and the three results
\* come from the one response that was fetched: one manuscript per original
\* file of its body that is not a test input, the models being exactly the
\* display names the manuscripts hold, the selection among them.
LoadSucceededOutcome ==
    /\ ~error.set
    /\ loadResponse.ok
    /\ loadResponse.body.type = "json"
    /\ {manuscripts[i].id : i \in 1..Len(manuscripts)} =
          {n \in DOMAIN loadResponse.body.data.originals : ~endsWith(n, TestInputSuffix)}
    /\ \A i, j \in 1..Len(manuscripts) : manuscripts[i].id = manuscripts[j].id => i = j
    /\ Range(reconstructionModels) =
          UNION {DOMAIN manuscripts[i].reconstructions : i \in 1..Len(manuscripts)}
    /\ \A i, j \in 1..Len(reconstructionModels) :
          reconstructionModels[i] = reconstructionModels[j] => i = j
    /\ Range(selectedModels) \subseteq Range(reconstructionModels)

\* C14: the initial load always terminates: isLoading eventually becomes
\* false and stays false, whether the fetch, the decoding or the processing
\* succeeds or throws. While it is true nothing is stored; once it is false
\* exactly one of the two outcomes holds: error set and the three results
\* empty, or error null and the three results set together from the one
\* fetched response, selectedModels being set equal to reconstructionModels.
C14_InitialLoadTerminates ==
    /\ <>[](~isLoading)
    /\ [][~isLoading => ~isLoading']_vars
    /\ [](isLoading =>
            /\ error = NullError
            /\ manuscripts = <<>>
            /\ reconstructionModels = <<>>
            /\ selectedModels = <<>>)
    /\ [](~isLoading =>
            \/ LoadFailedOutcome /\ ~LoadSucceededOutcome
            \/ LoadSucceededOutcome /\ ~LoadFailedOutcome)
    /\ [][(isLoading /\ ~isLoading' /\ ~error'.set) =>
            selectedModels' = reconstructionModels']_vars

\* C14 witness: the body was decoded, the processing of the data threw, and
\* the load ended with the error stored and the spinner gone.
C14_Witness ==
    /\ loadPc = "done"
    /\ loadResponse.body.type = "json"
    /\ ProcessingThrows(loadResponse.body.data)
    /\ ~isLoading
    /\ error.set

\* The folders of the fetched data that hold a non-empty file named fileName.
FoldersHolding(data, fileName) ==
    {f \in DOMAIN data.reconstructions :
        /\ ~data.reconstructions[f].isNull
        /\ fileName \in DOMAIN data.reconstructions[f].files
        /\ ~data.reconstructions[f].files[fileName].empty}

\* C15: every manuscript built by loadAndProcessData has as many entries in
\* its reconstructions mapping as there are reconstruction folders holding a
\* non-empty file with its file name: no folder's merged lines are
\* overwritten by those of another folder with the same display name.
C15_EveryFolderHasItsOwnEntry ==
    (loadPc = "done" /\ ~error.set) =>
        \A i \in 1..Len(manuscripts) :
            Cardinality(DOMAIN manuscripts[i].reconstructions) =
                Cardinality(FoldersHolding(loadResponse.body.data, manuscripts[i].id))

(***************************************************************************)
(* Claims about the line merge (checked under SpecMerge).                  *)
(***************************************************************************)

\* The positions of the lines with empty text, in order.
EmptySlots(lines) ==
    LET IsEmptyAt(i) == lines[i].text = <<>>
    IN  SelectSeq([i \in 1..Len(lines) |-> i], IsEmptyAt)

\* C1: the merged sequence has, at every position, the page and line
\* identifiers of the original at that position, and differs from the
\* original only in text and isFilled, and only where the original text is
\* empty.
C1_MergedKeepsOriginalStructure ==
    mpc = "done" =>
        /\ Len(combinedLines) = Len(originalLines)
        /\ \A k \in 1..Len(originalLines) :
            /\ combinedLines[k].page = originalLines[k].page
            /\ combinedLines[k].line = originalLines[k].line
            /\ originalLines[k].text # <<>> =>
                  /\ combinedLines[k].text = originalLines[k].text
                  /\ ~combinedLines[k].isFilled

\* C2: for all inputs, empty ones included, the merged sequence has exactly
\* as many elements as the original sequence.
C2_MergedLengthIsOriginalLength ==
    mpc = "done" => Len(combinedLines) = Len(originalLines)

\* C2 witness: a three-line original of which one empty line was filled and
\* another stayed empty.
C2_Witness ==
    /\ mpc = "done"
    /\ Len(originalLines) = 3
    /\ \E i, j \in 1..Len(combinedLines) :
          /\ combinedLines[i].isFilled
          /\ ~combinedLines[j].isFilled /\ combinedLines[j].text = <<>>

C4_TrailingEmptySlotsStayUnfilled ==
    mpc = "done" =>
        LET slots == EmptySlots(originalLines)
            n == Len(reconstructionLines)
        IN  /\ n < Len(slots) =>
                \A k \in 1..Len(slots) :
                    /\ slots[k] \in DOMAIN combinedLines
                    /\ k <= n =>
                          /\ combinedLines[slots[k]].isFilled
                          /\ combinedLines[slots[k]].text = reconstructionLines[k].text
                    /\ k > n =>
                          combinedLines[slots[k]] =
                              [page |-> originalLines[slots[k]].page,
                               line |-> originalLines[slots[k]].line,
                               text |-> <<>>,
                               isFilled |-> FALSE]
            /\ n = 0 =>
                combinedLines =
                    [k \in 1..Len(originalLines) |->
                        [page |-> originalLines[k].page,
                         line |-> originalLines[k].line,
                         text |-> originalLines[k].text,
                         isFilled |-> FALSE]]

\* C4 witness: one reconstruction entry, at least two empty slots, the first
\* filled and a later one left empty.
C4_Witness ==
    /\ mpc = "done"
    /\ Len(reconstructionLines) = 1
    /\ Len(EmptySlots(originalLines)) >= 2
    /\ combinedLines[EmptySlots(originalLines)[1]].isFilled
    /\ ~combinedLines[EmptySlots(originalLines)[2]].isFilled

====
